---- MODULE Spec2Model ----
(***************************************************************************)
(* Turn, shot and scoring state machine of the Hytopia golf game:          *)
(* GolfGameManager (turn order, hole progression, scoring, penalties),     *)
(* GolfPlayerEntity (turn / aim / power-charge state machine) and the      *)
(* parts of GolfBallEntity the manager depends on.  The engine (physics,   *)
(* input ticks, collisions, timers, joins and leaves) is the environment.  *)
(***************************************************************************)
EXTENDS Integers, Sequences, FiniteSets, TLC

(* ------------------------------ bounds -------------------------------- *)
\* number of JOINED_WORLD events (each join brings a fresh player entity)
MaxPlayers == 2
\* cap on a player's _shotCount and on the shots counted on one hole
MaxShots == 1
\* cap on the pending timers of each kind
MaxTimers == 1
\* cap on a player's totalStrokes
MaxTotal == 1
\* cap on the power-charging ticks of one swing in the game specification
MaxChargeTicks == 1

\* caps on the shots of a player and on the pending timers of each kind in
\* the specification of one hole played by two players
MaxRoundShots == 2
MaxRoundTimers == 2

(* ------------------------- program constants -------------------------- *)
\* GolfGameManager._setupDefaultCourse: the course has three holes
NumHoles == 3
\* index.ts: maxPower: 100
maxPower == 100
\* GolfPlayerEntity._updatePower: powerIncrement = maxPower / (60 * 2)
PowerTicks == 120
\* GolfPlayerEntity._executeShot: force = (power / maxPower) * 50
MaxForce == 50
\* (currentPlayerIndex + 1) % 0 is NaN in JavaScript; NaN is modelled as -1
NaN == -1
\* an array slot never assigned (strokes[h] of a hole not recorded)
Undefined == -1
\* no player (undefined PlayerScore)
NoPlayer == 0

PlayerIds == 1..MaxPlayers
Holes == 0..(NumHoles - 1)
TimerKinds == {"settle", "retry", "hole"}

VARIABLES
  players,             \* _players: registered player ids in Map insertion order
  score,               \* _players values: strokes per hole and totalStrokes
  ent,                 \* the GolfPlayerEntity of each registered player
  currentPlayerIndex,  \* _currentPlayerIndex (0-based, or NaN)
  currentHole,         \* _currentHole (0-based)
  gameInProgress,      \* _gameInProgress
  golfBall,            \* _golfBall and its rigid-body state
  timers,              \* pending setTimeout callbacks, by kind
  joined,              \* number of players that joined the world so far
  played,              \* history: shots and penalties of each player on the current hole
  completed,           \* history: ball-in-hole was recorded on the current hole
  last                 \* history: the last handler that ran and what it emitted

vars == <<players, score, ent, currentPlayerIndex, currentHole, gameInProgress,
          golfBall, timers, joined, played, completed, last>>

(* ------------------------------ values -------------------------------- *)
\* GolfPlayerEntity field initialisers; _currentPower is kept as the
\* numerator of a fraction over PowerTicks so that maxPower / 120 is exact
NewEntity ==
  [isPlayerTurn |-> FALSE, shotCount |-> 0, isCharging |-> FALSE,
   isAiming |-> FALSE, currentPower |-> 0, currentBall |-> "none"]

\* PlayerScore as addPlayer builds it
NewScore == [strokes |-> [h \in Holes |-> Undefined], totalStrokes |-> 0]

\* no ball created yet (_golfBall undefined)
NoBall == [exists |-> FALSE, isSpawned |-> FALSE, moving |-> FALSE, pos |-> <<0, 0, 0>>]

\* what the last handler did and sent; filled in while the handler runs
Quiet ==
  [shot |-> FALSE, hit |-> FALSE, advanced |-> FALSE, holeStarted |-> FALSE,
   holed |-> FALSE, penalty |-> FALSE, threw |-> FALSE,
   meter |-> Undefined, gameEnd |-> <<>>]

\* the whole program state as one record, so that methods compose
State ==
  [players |-> players, score |-> score, ent |-> ent,
   currentPlayerIndex |-> currentPlayerIndex, currentHole |-> currentHole,
   gameInProgress |-> gameInProgress, golfBall |-> golfBall, timers |-> timers,
   joined |-> joined, played |-> played, completed |-> completed, last |-> last]

Commit(w) ==
  /\ players' = w.players
  /\ score' = w.score
  /\ ent' = w.ent
  /\ currentPlayerIndex' = w.currentPlayerIndex
  /\ currentHole' = w.currentHole
  /\ gameInProgress' = w.gameInProgress
  /\ golfBall' = w.golfBall
  /\ timers' = w.timers
  /\ joined' = w.joined
  /\ played' = w.played
  /\ completed' = w.completed
  /\ last' = w.last

\* the program is in state w
Is(w) ==
  /\ players = w.players
  /\ score = w.score
  /\ ent = w.ent
  /\ currentPlayerIndex = w.currentPlayerIndex
  /\ currentHole = w.currentHole
  /\ gameInProgress = w.gameInProgress
  /\ golfBall = w.golfBall
  /\ timers = w.timers
  /\ joined = w.joined
  /\ played = w.played
  /\ completed = w.completed
  /\ last = w.last

Registered(w) == {w.players[i] : i \in 1..Len(w.players)}

Min(a, b) == IF a <= b THEN a ELSE b

(* --------------------------- GolfBallEntity --------------------------- *)
\* isMoving() with the comparison turned round, so that a rolling ball
\* counts as stopped
isMovingInverted(b) == b.exists /\ ~b.moving

\* isMoving(): speed > 0.01; `this._golfBall?.isMoving()` is undefined
\* (falsy) when there is no ball
isMoving(b) == b.exists /\ b.moving

\* stopBall(): zero velocity, when spawned
stopBall(b) == IF ~b.isSpawned THEN b ELSE [b EXCEPT !.moving = FALSE]

\* resetToPosition(position): stop, then setPosition, when spawned
resetToPosition(b, position) ==
  IF ~b.isSpawned THEN b ELSE [stopBall(b) EXCEPT !.pos = position]

\* hit(direction, force): an impulse of force * mass along the aim
\* direction, when spawned; the ball then moves at speed `force`, and
\* force = currentPower / maxPower * 50 with currentPower = power / PowerTicks
hit(b, power) ==
  IF ~b.isSpawned THEN b
  ELSE IF power * MaxForce * 100 > maxPower * PowerTicks
       THEN [b EXCEPT !.moving = TRUE] ELSE b

\* spawn(world, position): the engine places a new body at rest; what it does
\* with an entity that is already spawned is the engine's choice (respawn)
spawn(b, position, respawn) ==
  IF b.isSpawned /\ ~respawn THEN b
  ELSE [b EXCEPT !.isSpawned = TRUE, !.moving = FALSE, !.pos = position]

\* GolfGameManager._setupDefaultCourse: teePosition of each hole
teePosition(h) ==
  CASE h = 0 -> <<-10, 2, 0>>
    [] h = 1 -> <<-15, 2, 10>>
    [] OTHER -> <<0, 2, -20>>

\* where the ball is once the physics has moved it off its last placement
\* (a point of the course that is no tee)
Fairway == <<0, 1, 0>>

\* GolfPlayerEntity._resetBall: one above the player, who stands where
\* index.ts spawned them ({x: 0, y: 3, z: -30})
resetPosition == <<0, 4, -30>>

(* -------------------------- GolfPlayerEntity -------------------------- *)
\* _startAiming(): needs a ball
startAiming(e) == IF e.currentBall = "none" THEN e ELSE [e EXCEPT !.isAiming = TRUE]

\* _stopAiming()
stopAiming(e) == [e EXCEPT !.isAiming = FALSE]

\* _toggleAiming()
toggleAiming(e) == IF e.isAiming THEN stopAiming(e) ELSE startAiming(e)

\* setGolfBall(ball): the manager always passes its current _golfBall
setGolfBall(e) == [e EXCEPT !.currentBall = "current"]

\* startTurn(): the shot count restarts at 0 with every turn
startTurn(e) == startAiming([e EXCEPT !.isPlayerTurn = TRUE, !.shotCount = 0])

\* endTurn()
endTurn(e) ==
  [e EXCEPT !.isPlayerTurn = FALSE, !.isAiming = FALSE, !.isCharging = FALSE,
            !.currentPower = 0]

\* _startCharging()
startCharging(e) == [e EXCEPT !.isCharging = TRUE, !.currentPower = 0]

\* the power increment without the Math.min clamp
nextPowerUnclamped(power) == power + maxPower

\* Math.min(_currentPower + powerIncrement, maxPower), over PowerTicks
nextPower(power) == Min(power + maxPower, maxPower * PowerTicks)

\* _updatePower(): one increment, clamped, and a golf-power-meter message
updatePower(w, p) ==
  IF ~w.ent[p].isCharging THEN w
  ELSE LET power == nextPower(w.ent[p].currentPower)
       IN [w EXCEPT !.ent[p].currentPower = power, !.last.meter = power]

\* the manager's 'golf-shot' listener (_setupPlayerEvents): setTimeout(1000)
onGolfShot(w) == [w EXCEPT !.timers.settle = @ + 1]

\* _executeShot() that leaves _isCharging set
executeShotStillCharging(w, p) ==
  LET e == w.ent[p] IN
  IF ~e.isCharging \/ e.currentBall = "none" THEN w
  ELSE onGolfShot(
         [w EXCEPT !.ent[p] = stopAiming([e EXCEPT !.shotCount = @ + 1,
                                                   !.currentPower = 0]),
                   !.golfBall = IF e.currentBall = "current"
                                THEN hit(@, e.currentPower) ELSE @,
                   !.played[p] = @ + 1,
                   !.last.shot = TRUE,
                   !.last.hit = (e.currentBall = "current" /\ w.golfBall.isSpawned),
                   !.last.meter = 0])

\* _executeShot(): registered players are spawned (this.world is set); a
\* ball of an earlier game is despawned, so that hit() does nothing to it
executeShot(w, p) ==
  LET e == w.ent[p] IN
  IF ~e.isCharging \/ e.currentBall = "none" THEN w
  ELSE LET ball == IF e.currentBall = "current"
                   THEN hit(w.golfBall, e.currentPower) ELSE w.golfBall
           shot == [w EXCEPT !.ent[p] = stopAiming([e EXCEPT !.isCharging = FALSE,
                                                             !.shotCount = @ + 1,
                                                             !.currentPower = 0]),
                             !.golfBall = ball,
                             !.played[p] = @ + 1,
                             !.last.shot = TRUE,
                             !.last.hit = (e.currentBall = "current" /\ w.golfBall.isSpawned),
                             !.last.meter = 0]
       IN onGolfShot(shot)

\* _resetBall()
resetBall(w, p) ==
  IF w.ent[p].currentBall # "current" THEN w
  ELSE [w EXCEPT !.golfBall = resetToPosition(@, resetPosition)]

\* the TICK_WITH_PLAYER_INPUT listener without its tests of _isPlayerTurn
onTickWithPlayerInputAnyTurn(w, p, sp, f, r) ==
  LET e == w.ent[p]
      w1 == IF sp /\ ~e.isCharging /\ e.isAiming
            THEN [w EXCEPT !.ent[p] = startCharging(e)]
            ELSE IF ~sp /\ e.isCharging THEN executeShot(w, p) ELSE w
      w2 == IF w1.ent[p].isCharging THEN updatePower(w1, p) ELSE w1
      w3 == IF f THEN [w2 EXCEPT !.ent[p] = toggleAiming(@)] ELSE w2
  IN IF r /\ w3.ent[p].currentBall # "none" THEN resetBall(w3, p) ELSE w3

\* the TICK_WITH_PLAYER_INPUT listener of _setupGolfControls
onTickWithPlayerInput(w, p, sp, f, r) ==
  IF ~w.ent[p].isPlayerTurn THEN w
  ELSE LET e == w.ent[p]
           w1 == IF sp /\ ~e.isCharging /\ e.isAiming
                 THEN [w EXCEPT !.ent[p] = startCharging(e)]
                 ELSE IF ~sp /\ e.isCharging THEN executeShot(w, p) ELSE w
           w2 == IF w1.ent[p].isCharging THEN updatePower(w1, p) ELSE w1
           w3 == IF f /\ w2.ent[p].isPlayerTurn
                 THEN [w2 EXCEPT !.ent[p] = toggleAiming(@)] ELSE w2
       IN IF r /\ w3.ent[p].isPlayerTurn /\ w3.ent[p].currentBall # "none"
          THEN resetBall(w3, p) ELSE w3

(* --------------------------- GolfGameManager -------------------------- *)
\* _getCurrentPlayer(): Array.from(_players.values())[_currentPlayerIndex]
getCurrentPlayer(w) ==
  IF w.currentPlayerIndex # NaN /\ w.currentPlayerIndex < Len(w.players)
  THEN w.players[w.currentPlayerIndex + 1] ELSE NoPlayer

\* _startPlayerTurn() without the loop that ends the other players' turns
startPlayerTurnKeepingOthers(w) ==
  LET currentPlayer == getCurrentPlayer(w) IN
  IF currentPlayer = NoPlayer THEN w
  ELSE [w EXCEPT !.ent[currentPlayer] =
          startTurn(IF w.golfBall.exists THEN setGolfBall(@) ELSE @)]

\* _startPlayerTurn()
startPlayerTurn(w) ==
  LET currentPlayer == getCurrentPlayer(w) IN
  IF currentPlayer = NoPlayer THEN w
  ELSE [w EXCEPT !.ent = [p \in PlayerIds |->
          IF p = currentPlayer
          THEN startTurn(IF w.golfBall.exists THEN setGolfBall(w.ent[p]) ELSE w.ent[p])
          ELSE IF p \in Registered(w) THEN endTurn(w.ent[p]) ELSE w.ent[p]]]

\* the index two places on, which passes over a player
nextIndexSkipping(i, size) == IF i = NaN \/ size = 0 THEN NaN ELSE (i + 2) % size

\* (_currentPlayerIndex + 1) % _players.size
nextIndex(i, size) == IF i = NaN \/ size = 0 THEN NaN ELSE (i + 1) % size

\* _nextPlayerTurn()
nextPlayerTurn(w) ==
  IF isMoving(w.golfBall)
  THEN [w EXCEPT !.timers.retry = @ + 1]
  ELSE startPlayerTurn([w EXCEPT
         !.currentPlayerIndex = nextIndex(@, Len(w.players)),
         !.last.advanced = TRUE])

\* _startHole(holeIndex); past the last hole it calls this._endGame(), a
\* method the class does not have: the call throws a TypeError and the
\* callback ends there
startHole(w, holeIndex, respawn) ==
  IF holeIndex >= NumHoles THEN [w EXCEPT !.last.threw = TRUE]
  ELSE startPlayerTurn([w EXCEPT
         !.currentHole = holeIndex,
         !.golfBall = IF @.exists THEN spawn(@, teePosition(holeIndex), respawn) ELSE @,
         !.currentPlayerIndex = 0,
         !.played = [p \in PlayerIds |-> 0],
         !.completed = FALSE,
         !.last.holeStarted = TRUE])

\* _createGolfBall(): the old ball is despawned, the players that hold it
\* keep a reference to it
createGolfBall(w) ==
  [w EXCEPT !.golfBall = [exists |-> TRUE, isSpawned |-> FALSE, moving |-> FALSE,
                          pos |-> <<0, 0, 0>>],
            !.ent = [p \in PlayerIds |->
                      IF w.ent[p].currentBall = "current"
                      THEN [w.ent[p] EXCEPT !.currentBall = "old"] ELSE w.ent[p]]]

\* Array.prototype.sort((a, b) => a.totalStrokes - b.totalStrokes): a stable
\* sort, computed here by insertion, each player going after the players
\* already placed whose total is not greater
RECURSIVE insertByTotal(_, _, _)
insertByTotal(sorted, p, total) ==
  IF sorted = <<>> THEN <<p>>
  ELSE IF total[Head(sorted)] <= total[p]
       THEN <<Head(sorted)>> \o insertByTotal(Tail(sorted), p, total)
       ELSE <<p>> \o sorted

RECURSIVE sortByTotal(_, _)
sortByTotal(ps, total) ==
  IF ps = <<>> THEN <<>>
  ELSE insertByTotal(sortByTotal(SubSeq(ps, 1, Len(ps) - 1), total), ps[Len(ps)], total)

\* _calculateFinalScores() without the sort: the players as registered
calculateFinalScoresUnsorted(w) == w.players

\* _calculateFinalScores(): the registered players by ascending totalStrokes
calculateFinalScores(w) ==
  sortByTotal(w.players, [p \in PlayerIds |-> w.score[p].totalStrokes])

\* endGame() without the test of _gameInProgress
endGameUnguarded(w) ==
  LET currentPlayer == getCurrentPlayer(w)
      finalScores == calculateFinalScores(w)
      ended == [w EXCEPT !.gameInProgress = FALSE,
                         !.ent = IF currentPlayer = NoPlayer THEN @
                                 ELSE [@ EXCEPT ![currentPlayer] = endTurn(@)]]
  IN IF finalScores = <<>> THEN [ended EXCEPT !.last.threw = TRUE]
     ELSE [ended EXCEPT !.last.gameEnd =
            <<[to |-> Registered(w),
               winner |-> finalScores[1],
               finalScores |-> [i \in 1..Len(finalScores) |->
                  [player |-> finalScores[i],
                   totalStrokes |-> w.score[finalScores[i]].totalStrokes]]]>>]

\* endGame(); with no player left finalScores[0] is undefined, nothing is
\* sent and the closing console.log throws
endGame(w) ==
  IF ~w.gameInProgress THEN w
  ELSE LET currentPlayer == getCurrentPlayer(w)
           finalScores == calculateFinalScores(w)
           ended == [w EXCEPT !.gameInProgress = FALSE,
                              !.ent = IF currentPlayer = NoPlayer THEN @
                                      ELSE [@ EXCEPT ![currentPlayer] = endTurn(@)]]
       IN IF finalScores = <<>> THEN [ended EXCEPT !.last.threw = TRUE]
          ELSE [ended EXCEPT !.last.gameEnd =
                 <<[to |-> Registered(w),
                    winner |-> finalScores[1],
                    finalScores |-> [i \in 1..Len(finalScores) |->
                       [player |-> finalScores[i],
                        totalStrokes |-> w.score[finalScores[i]].totalStrokes]]]>>]

\* startGame() without the test for an empty _players
startGameUnguarded(w, respawn) ==
  startHole(createGolfBall([w EXCEPT
    !.gameInProgress = TRUE,
    !.currentHole = 0,
    !.currentPlayerIndex = 0,
    !.score = [p \in PlayerIds |->
                IF p \in Registered(w) THEN NewScore ELSE @[p]]]), 0, respawn)

\* startGame() without the reset of the players' scores
startGameKeepingScores(w, respawn) ==
  IF Len(w.players) = 0 THEN w
  ELSE startHole(createGolfBall([w EXCEPT
         !.gameInProgress = TRUE,
         !.currentHole = 0,
         !.currentPlayerIndex = 0]), 0, respawn)

\* startGame()
startGame(w, respawn) ==
  IF Len(w.players) = 0 THEN w
  ELSE startHole(createGolfBall([w EXCEPT
         !.gameInProgress = TRUE,
         !.currentHole = 0,
         !.currentPlayerIndex = 0,
         !.score = [p \in PlayerIds |->
                     IF p \in Registered(w) THEN NewScore ELSE @[p]]]), 0, respawn)

\* addPlayer(player, golfEntity) as index.ts calls it on JOINED_WORLD, with a
\* GolfPlayerEntity made for the occasion
addPlayer(w, p) ==
  [w EXCEPT !.players = Append(@, p),
            !.score[p] = NewScore,
            !.ent[p] = NewEntity,
            !.joined = @ + 1]

\* _players.delete(player.id)
deletePlayer(ps, p) == SelectSeq(ps, LAMBDA q : q # p)

\* removePlayer(player) on LEFT_WORLD; the entity is despawned and gone
removePlayer(w, p) ==
  LET removed == [w EXCEPT !.players = deletePlayer(@, p),
                           !.score[p] = NewScore,
                           !.ent[p] = NewEntity,
                           !.played[p] = 0]
  IN IF removed.gameInProgress /\ getCurrentPlayer(removed) = p
     THEN nextPlayerTurn(removed) ELSE removed

\* _handleBallInHole()
handleBallInHole(w) ==
  LET currentPlayer == getCurrentPlayer(w) IN
  IF ~w.gameInProgress \/ currentPlayer = NoPlayer THEN w
  ELSE LET strokes == w.ent[currentPlayer].shotCount
       IN [w EXCEPT !.score[currentPlayer].strokes[w.currentHole] = strokes,
                    !.score[currentPlayer].totalStrokes = @ + strokes,
                    !.timers.hole = @ + 1,
                    !.completed = TRUE,
                    !.last.holed = TRUE]

\* _handleWaterHazard() without the reset of the ball to the tee
handleWaterHazardNoReset(w) ==
  LET currentPlayer == getCurrentPlayer(w) IN
  IF currentPlayer = NoPlayer THEN w
  ELSE [w EXCEPT !.ent[currentPlayer].shotCount = @ + 1,
                 !.played[currentPlayer] = @ + 1,
                 !.last.penalty = TRUE]

\* _handleWaterHazard()
handleWaterHazard(w) ==
  LET currentPlayer == getCurrentPlayer(w) IN
  IF currentPlayer = NoPlayer THEN w
  ELSE [w EXCEPT !.ent[currentPlayer].shotCount = @ + 1,
                 !.golfBall = IF @.exists
                              THEN resetToPosition(@, teePosition(w.currentHole)) ELSE @,
                 !.played[currentPlayer] = @ + 1,
                 !.last.penalty = TRUE]

\* _handleCollision(other, started) that does not look at `started`
collisionOutputsAnyPhase(b, other, started) ==
  (IF isMoving(b) THEN <<"bounce-sound">> ELSE <<>>)
  \o (IF other.isObject /\ other.name = "GolfHole" THEN <<"ball-in-hole">> ELSE <<>>)
  \o (IF other.isObject /\ other.isLiquid THEN <<"ball-in-water">> ELSE <<>>)

\* GolfBallEntity._handleCollision(other, started): the sound it plays and
\* the events it emits, in the order of the code
collisionOutputs(b, other, started) ==
  IF ~started THEN <<>>
  ELSE (IF isMoving(b) THEN <<"bounce-sound">> ELSE <<>>)
       \o (IF other.isObject /\ other.name = "GolfHole" THEN <<"ball-in-hole">> ELSE <<>>)
       \o (IF other.isObject /\ other.isLiquid THEN <<"ball-in-water">> ELSE <<>>)

\* the listeners _createGolfBall puts on the ball, called as emit() reaches
\* them; a sound changes nothing
RECURSIVE deliver(_, _)
deliver(w, outputs) ==
  IF outputs = <<>> THEN w
  ELSE deliver(CASE Head(outputs) = "ball-in-hole" -> handleBallInHole(w)
                 [] Head(outputs) = "ball-in-water" -> handleWaterHazard(w)
                 [] OTHER -> w,
               Tail(outputs))

\* GolfBallEntity._handleCollision(other, started) with the manager's
\* 'ball-in-hole' and 'ball-in-water' listeners
handleCollision(w, other, started) ==
  deliver(w, collisionOutputs(w.golfBall, other, started))

\* the callbacks passed to setTimeout
timerCallback(w, kind, respawn) ==
  CASE kind = "settle" -> IF ~isMoving(w.golfBall) THEN nextPlayerTurn(w) ELSE w
    [] kind = "retry" -> nextPlayerTurn(w)
    [] OTHER -> startHole(w, w.currentHole + 1, respawn)

(* ------------------------------ actions ------------------------------- *)
\* the counters stay within the bounds of the model
InBounds(w) ==
  /\ \A p \in PlayerIds :
       /\ w.ent[p].shotCount <= MaxShots
       /\ w.played[p] <= MaxShots
       /\ w.score[p].totalStrokes <= MaxTotal
  /\ \A k \in TimerKinds : w.timers[k] <= MaxTimers

\* a swing is charged for at most MaxChargeTicks ticks
ChargeInBounds(w) ==
  \A p \in PlayerIds : w.ent[p].currentPower <= MaxChargeTicks * maxPower

\* the state a handler starts from
Begin == [State EXCEPT !.last = Quiet]

\* the objects the ball can run into: the hole or any other body, liquid
\* or not, and a collider the engine reports without an object
Others ==
  {[isObject |-> TRUE, name |-> n, isLiquid |-> l] :
     n \in {"GolfHole", "block"}, l \in BOOLEAN}
  \cup {[isObject |-> FALSE, name |-> "", isLiquid |-> FALSE]}

\* the GolfGameManager as constructed by index.ts, nobody having joined
Constructed ==
  [players |-> <<>>,
   score |-> [p \in PlayerIds |-> NewScore],
   ent |-> [p \in PlayerIds |-> NewEntity],
   currentPlayerIndex |-> 0,
   currentHole |-> 0,
   gameInProgress |-> FALSE,
   golfBall |-> NoBall,
   timers |-> [k \in TimerKinds |-> 0],
   joined |-> 0,
   played |-> [p \in PlayerIds |-> 0],
   completed |-> FALSE,
   last |-> Quiet]

Init == Is(Constructed)

\* PlayerEvent.JOINED_WORLD
AddPlayer ==
  /\ joined < MaxPlayers
  /\ Commit(addPlayer(Begin, joined + 1))

\* PlayerEvent.LEFT_WORLD
RemovePlayer ==
  \E p \in Registered(State) :
    LET w == removePlayer(Begin, p)
    IN InBounds(w) /\ Commit(w)

\* /startgolf
StartGame ==
  \E respawn \in BOOLEAN :
    LET w == startGame(Begin, respawn)
    IN InBounds(w) /\ Commit(w)

\* /endgolf
EndGame == \E w \in {endGame(Begin)} : Commit(w)

\* a controller tick of a registered player with the keys held
TickWithPlayerInput ==
  \E p \in Registered(State), sp \in BOOLEAN, f \in BOOLEAN, r \in BOOLEAN :
    LET w == onTickWithPlayerInput(Begin, p, sp, f, r)
    IN InBounds(w) /\ ChargeInBounds(w) /\ Commit(w)

\* the same tick, with a swing charged for as long as the player likes
TickCharging ==
  \E p \in Registered(State), sp \in BOOLEAN, f \in BOOLEAN, r \in BOOLEAN :
    LET w == onTickWithPlayerInput(Begin, p, sp, f, r)
    IN InBounds(w) /\ Commit(w)

\* the physics moves the rolling ball on, and may bring it to rest
BallPhysics ==
  /\ golfBall.isSpawned /\ golfBall.moving
  /\ \E stops \in BOOLEAN :
       Commit([Begin EXCEPT !.golfBall.pos = Fairway,
                                      !.golfBall.moving = ~stops])

\* the engine reports a collision of the spawned ball
Collision ==
  /\ golfBall.isSpawned
  /\ \E other \in Others, started \in BOOLEAN :
       LET w == handleCollision(Begin, other, started)
       IN InBounds(w) /\ Commit(w)

\* a pending timer fires
TimerFires ==
  \E kind \in TimerKinds, respawn \in BOOLEAN :
    /\ timers[kind] > 0
    /\ LET w == timerCallback([Begin EXCEPT !.timers[kind] = @ - 1], kind, respawn)
       IN InBounds(w) /\ Commit(w)

Next ==
  \/ AddPlayer
  \/ RemovePlayer
  \/ StartGame
  \/ EndGame
  \/ TickWithPlayerInput
  \/ BallPhysics
  \/ Collision
  \/ TimerFires

Spec == Init /\ [][Next]_vars

\* the event loop runs every timer that is due
FairSpec == Spec /\ WF_vars(TimerFires)

\* one player has joined and typed /startgolf; from there the player's
\* input, the physics and the timers run, with the power meter in full
InitPlayer == Is(startGame(addPlayer(Constructed, 1), TRUE))

NextPlayer ==
  \/ TickCharging
  \/ BallPhysics
  \/ TimerFires

PlayerSpec == InitPlayer /\ [][NextPlayer]_vars

\* the counters stay within the bounds of one hole played by two players
RoundInBounds(w) ==
  /\ \A p \in PlayerIds :
       w.ent[p].shotCount <= MaxRoundShots /\ w.played[p] <= MaxRoundShots
  /\ \A k \in TimerKinds : w.timers[k] <= MaxRoundTimers

\* a controller tick of one of the two players
TickInRound ==
  \E p \in Registered(State), sp \in BOOLEAN, f \in BOOLEAN, r \in BOOLEAN :
    LET w == onTickWithPlayerInput(Begin, p, sp, f, r)
    IN RoundInBounds(w) /\ ChargeInBounds(w) /\ Commit(w)

\* a pending timer fires during the hole
TimerInRound ==
  \E kind \in TimerKinds, respawn \in BOOLEAN :
    /\ timers[kind] > 0
    /\ LET w == timerCallback([Begin EXCEPT !.timers[kind] = @ - 1], kind, respawn)
       IN RoundInBounds(w) /\ Commit(w)

\* two players have joined and /startgolf was typed; nobody joins or leaves
\* and the ball stays out of the hole, while the players' input, the
\* physics and the timers interleave in every way, with several shots to a
\* turn and several settle timers pending
InitRound == Is(startGame(addPlayer(addPlayer(Constructed, 1), 2), TRUE))

NextRound ==
  \/ TickInRound
  \/ BallPhysics
  \/ TimerInRound

RoundSpec == InitRound /\ [][NextRound]_vars

(* ------------------------------- claims ------------------------------- *)
\* the registered players whose isPlayerTurn() is true
InTurn == {p \in Registered(State) : ent[p].isPlayerTurn}

\* C1: in every reachable state at most one registered player has
\* isPlayerTurn() = true
C1_AtMostOneInTurn == Cardinality(InTurn) <= 1

\* the turn has passed from the first of two players to the second
C1_Witness ==
  /\ Len(players) = 2
  /\ last.advanced
  /\ InTurn = {players[2]}

\* C5: _nextPlayerTurn moves on to the next player only while the golf
\* ball is not moving
C5_AdvanceOnlyAtRest == [][last'.advanced => ~golfBall.moving /\ ~golfBall'.moving]_vars

\* a turn advance from the first player to the second after a shot that
\* set the ball rolling and was stopped by the physics, away from the tee
C5_Witness ==
  /\ last.advanced
  /\ gameInProgress
  /\ currentPlayerIndex = 1
  /\ InTurn = {players[2]}
  /\ golfBall.pos = Fairway

\* C2: from startGame on the current hole changes only by +1, once per
\* completed hole (a new game starts again at the first hole)
C2_HolesInOrder ==
  [][currentHole' # currentHole =>
       \/ currentHole' = 0
       \/ currentHole' = currentHole + 1 /\ completed]_vars

\* C3: when the hole-advance timer fires after the ball was holed on the last
\* hole of a game in progress, the game ends: inProgress becomes false and
\* every registered player is sent golf-game-end
C3_LastHoleEndsGame ==
  [][(/\ gameInProgress
      /\ currentHole = NumHoles - 1
      /\ completed
      /\ timers'.hole = timers.hole - 1)
     => /\ ~gameInProgress'
        /\ last'.gameEnd # <<>>
        /\ last'.gameEnd[1].to = Registered(State)]_vars

\* C4: the strokes recorded when a player holes the ball are the shots that
\* player executed on the hole plus the penalty strokes received on it
C4_StrokesAreShotsPlusPenalties ==
  [][last'.holed =>
       LET currentPlayer == getCurrentPlayer(State)
       IN score'[currentPlayer].strokes[currentHole] = played[currentPlayer]]_vars

\* what _handleWaterHazard is to have done between w0 and w1
C7_PenaltyEffect(w0, w1) ==
  LET currentPlayer == getCurrentPlayer(w0) IN
  /\ w1.last.penalty
  /\ w1.ent[currentPlayer].shotCount = w0.ent[currentPlayer].shotCount + 1
  /\ \A q \in PlayerIds \ {currentPlayer} : w1.ent[q].shotCount = w0.ent[q].shotCount
  /\ ~w1.golfBall.moving
  /\ w1.golfBall.pos = teePosition(w1.currentHole)

Water == [isObject |-> TRUE, name |-> "block", isLiquid |-> TRUE]

\* C7: a ball-in-water event with a current player adds exactly one to that
\* player's shot count and to no other's, and leaves the ball at rest on the
\* tee of the current hole
C7_WaterPenalty ==
  getCurrentPlayer(State) # NoPlayer /\ golfBall.isSpawned
    => C7_PenaltyEffect(State, handleCollision(Begin, Water, TRUE))

\* a penalty was given for a ball that had rolled off the tee
C7_Witness ==
  /\ last.penalty
  /\ \E p \in Registered(State) : ent[p].shotCount = 1 /\ played[p] = 1
  /\ currentHole = 1
  /\ golfBall.pos = teePosition(1)
  /\ ~golfBall.moving

\* the golf-game-end of state w went to every registered player, lists all
\* of them by ascending totalStrokes and names one of the least as winner
C8_Sent(w) ==
  /\ w.last.gameEnd # <<>>
  /\ LET msg == w.last.gameEnd[1] IN
     /\ msg.to = Registered(w)
     /\ {msg.finalScores[i].player : i \in 1..Len(msg.finalScores)} = Registered(w)
     /\ Len(msg.finalScores) = Len(w.players)
     /\ \A i \in 1..Len(msg.finalScores) :
          msg.finalScores[i].totalStrokes = w.score[msg.finalScores[i].player].totalStrokes
     /\ \A i \in 1..(Len(msg.finalScores) - 1) :
          msg.finalScores[i].totalStrokes <= msg.finalScores[i + 1].totalStrokes
     /\ msg.winner \in Registered(w)
     /\ \A q \in Registered(w) :
          w.score[msg.winner].totalStrokes <= w.score[q].totalStrokes

\* C8: endGame on a game in progress with a registered player sends every
\* registered player golf-game-end, with the finalScores in non-decreasing
\* order of totalStrokes and a winner of minimal totalStrokes
C8_LowestTotalWins ==
  /\ gameInProgress /\ Len(players) >= 1 => C8_Sent(endGame(Begin))
  /\ last.gameEnd # <<>> => C8_Sent(State)

\* a game has ended that the player registered second won
C8_Witness ==
  /\ last.gameEnd # <<>>
  /\ Len(players) = 2
  /\ score[players[1]].totalStrokes > score[players[2]].totalStrokes
  /\ last.gameEnd[1].winner = players[2]

\* C9: 0 <= _currentPower <= maxPower in every state, and every
\* golf-power-meter message carries a power in that range (powers are
\* numerators over PowerTicks)
C9_PowerInRange ==
  /\ \A p \in PlayerIds :
       0 <= ent[p].currentPower /\ ent[p].currentPower <= maxPower * PowerTicks
  /\ last.meter # Undefined =>
       0 <= last.meter /\ last.meter <= maxPower * PowerTicks

\* the meter is full and a further charging tick has reported it full
C9_Witness ==
  \E p \in Registered(State) :
    /\ ent[p].isCharging
    /\ ent[p].currentPower = maxPower * PowerTicks
    /\ last.meter = maxPower * PowerTicks

\* C10: for a player in their turn who is charging with a ball assigned, a
\* tick with space released executes exactly one shot, and a tick with
\* space released of a player who is not charging executes none
C10_ReleaseHitsOnce ==
  \A p \in Registered(State), f \in BOOLEAN, r \in BOOLEAN :
    LET w == onTickWithPlayerInput(Begin, p, FALSE, f, r) IN
    /\ ent[p].isPlayerTurn /\ ent[p].isCharging /\ ent[p].currentBall # "none"
         => /\ w.last.shot /\ w.last.hit
            /\ w.golfBall.moving \/ r
            /\ w.ent[p].shotCount = ent[p].shotCount + 1
            /\ w.timers.settle = timers.settle + 1
            /\ ~w.ent[p].isCharging
            /\ \A f2 \in BOOLEAN, r2 \in BOOLEAN :
                 LET w2 == onTickWithPlayerInput([w EXCEPT !.last = Quiet], p, FALSE, f2, r2)
                 IN /\ ~w2.last.shot
                    /\ w2.ent[p].shotCount = w.ent[p].shotCount
                    /\ w2.timers = w.timers
                    /\ ~w2.ent[p].isCharging
    /\ ~ent[p].isCharging
         => /\ ~w.last.shot
            /\ w.ent[p].shotCount = ent[p].shotCount
            /\ w.timers = timers
            /\ ~w.ent[p].isCharging

\* a player has released space and the shot is out, the ball rolling
C10_Witness ==
  \E p \in Registered(State) :
    /\ last.shot /\ last.hit
    /\ ent[p].isPlayerTurn /\ ent[p].shotCount = 1 /\ ~ent[p].isCharging
    /\ timers.settle = 1
    /\ golfBall.moving

\* C11: an input tick of a player whose _isPlayerTurn is false changes
\* nothing, whatever keys are pressed: no charging, no shot, no change of
\* power, no toggle of aiming and no reset of the ball
C11_WaitForTurn ==
  \A p \in Registered(State), sp \in BOOLEAN, f \in BOOLEAN, r \in BOOLEAN :
    ~ent[p].isPlayerTurn => onTickWithPlayerInput(Begin, p, sp, f, r) = Begin

\* a handler has run without effect while one player was charging and
\* another, who holds the ball of this game, was waiting for their turn
C11_Witness ==
  /\ gameInProgress
  /\ last = Quiet
  /\ \E p \in Registered(State), q \in Registered(State) :
       /\ ~ent[p].isPlayerTurn /\ ent[p].currentBall = "current"
       /\ ent[q].isPlayerTurn /\ ent[q].isCharging

\* a game has just begun in state w: in progress on the first hole, all
\* scores empty, the first registered player alone in turn with no shot
C12_GameBegun(w) ==
  /\ w.gameInProgress
  /\ w.currentHole = 0
  /\ \A p \in Registered(w) : w.score[p] = NewScore
  /\ {p \in Registered(w) : w.ent[p].isPlayerTurn} = {w.players[1]}
  /\ w.ent[w.players[1]].shotCount = 0

\* C12: startGame with at least one registered player leaves the game in
\* progress on hole 1, every registered player's strokes empty and
\* totalStrokes 0, and exactly the first registered player in turn with
\* shot count 0, also when a game is already in progress
C12_StartGameBegins ==
  \A respawn \in BOOLEAN :
    Len(players) >= 1 => C12_GameBegun(startGame(Begin, respawn))

\* /startgolf was typed with two players while the 3 s timer of a hole
\* completed in the game before was still pending
C12_Witness ==
  /\ last.holeStarted
  /\ currentHole = 0
  /\ Len(players) = 2
  /\ timers.hole = 1
  /\ C12_GameBegun(State)

\* a game is in progress with players registered and none of them in turn,
\* as it is once the player in turn has left and others remain
C13_NobodyInTurn == gameInProgress /\ players # <<>> /\ InTurn = {}

\* C13: when the player whose turn it is leaves during a game and other
\* players remain, eventually the turn of one of the remaining players is
\* started (unless the game ends or everybody leaves first)
C13_TurnPassesOnLeave ==
  [](C13_NobodyInTurn => <>(InTurn # {} \/ ~gameInProgress \/ players = <<>>))

\* C14: startGame with no registered player is rejected: inProgress, the
\* current hole, the current player index, every score and the golf ball
\* are left as they were, and no ball is created
C14_NoPlayersNoGame ==
  \A respawn \in BOOLEAN :
    players = <<>> => startGame(Begin, respawn) = Begin

\* a handler has run without effect after the only player of a game on its
\* second hole had left, the game still in progress and its ball on the course
C14_Witness ==
  /\ players = <<>>
  /\ last = Quiet
  /\ gameInProgress
  /\ currentHole = 1
  /\ golfBall.isSpawned

\* C15: endGame when no game is in progress has no effect: no manager or
\* player state changes, no player's turn is ended and no golf-game-end
\* message is sent
C15_EndGameOnlyInProgress == ~gameInProgress => endGame(Begin) = Begin

\* a handler has run without effect while no game was in progress and the
\* player the manager holds for the current one was in turn
C15_Witness ==
  /\ ~gameInProgress
  /\ last = Quiet
  /\ getCurrentPlayer(State) \in InTurn

\* the pending timers that end in _nextPlayerTurn
C16_TurnTimers(t) == t.settle + t.retry

\* C16: with the players unchanged and the index on one of them, every turn
\* advance moves from index i to (i + 1) mod n, puts exactly that player in
\* turn and uses up one turn timer; every executed shot schedules exactly
\* one such timer and nothing else does, so that a shot causes at most one
\* advance
C16_RoundRobin ==
  [][/\ (/\ last'.advanced
         /\ players' = players
         /\ currentPlayerIndex \in 0..(Len(players) - 1))
        => /\ currentPlayerIndex' = (currentPlayerIndex + 1) % Len(players)
           /\ InTurn' = {players[currentPlayerIndex' + 1]}
           /\ C16_TurnTimers(timers') = C16_TurnTimers(timers) - 1
     /\ last'.shot => C16_TurnTimers(timers') = C16_TurnTimers(timers) + 1
     /\ C16_TurnTimers(timers') > C16_TurnTimers(timers) => last'.shot]_vars

\* the first of two players shot twice in one turn and both settle timers
\* have fired: the turn went to the second player and has come round again
C16_Witness ==
  /\ last.advanced
  /\ gameInProgress
  /\ Len(players) = 2
  /\ currentPlayerIndex = 0
  /\ InTurn = {players[1]}
  /\ played[players[1]] = 2 /\ played[players[2]] = 0
  /\ timers.settle = 0

\* C17: whenever a hole is started, the first or a later one, the golf ball
\* is then at rest at the tee position of that hole
C17_BallOnTee ==
  [][last'.holeStarted =>
       /\ golfBall'.isSpawned
       /\ ~golfBall'.moving
       /\ golfBall'.pos = teePosition(currentHole')]_vars

\* C18: while no game is in progress no registered player is in turn and
\* the current hole does not change, whatever timers of the game fire
C18_IdleWithoutGame ==
  [][/\ ~gameInProgress' => InTurn' = {}
     /\ ~gameInProgress /\ ~gameInProgress' => currentHole' = currentHole]_vars

\* how often output e occurs among the outputs of one collision event
C19_Count(outputs, e) == Cardinality({i \in DOMAIN outputs : outputs[i] = e})

\* C19: on a collision start the ball emits ball-in-hole once exactly when
\* the other object is named 'GolfHole' and ball-in-water once exactly when
\* it is liquid; a collision end emits nothing, plays no sound and changes
\* nothing
C19_OnlyCollisionStart ==
  \A other \in Others :
    LET outputs == collisionOutputs(golfBall, other, TRUE) IN
    /\ C19_Count(outputs, "ball-in-hole") =
         (IF other.isObject /\ other.name = "GolfHole" THEN 1 ELSE 0)
    /\ C19_Count(outputs, "ball-in-water") =
         (IF other.isObject /\ other.isLiquid THEN 1 ELSE 0)
    /\ collisionOutputs(golfBall, other, FALSE) = <<>>
    /\ handleCollision(Begin, other, FALSE) = Begin

\* the ball has run into a liquid named 'GolfHole': one event of each kind
\* has reached the manager, which recorded the hole and gave the penalty
C19_Witness ==
  /\ last.holed /\ last.penalty
  /\ timers.hole = 1
  /\ \E p \in Registered(State) : played[p] = 1 /\ ent[p].shotCount = 1

\* the turn has moved on, or the game ended, a hole started or the player
\* in turn left
C6_TurnPassed ==
  \/ last.advanced
  \/ last.holeStarted
  \/ ~gameInProgress
  \/ InTurn = {}

\* C6: after a shot in a game in progress, if the ball comes to rest and
\* stays at rest, then eventually the shooter's turn ends and the next
\* player's turn starts, whatever the ball did when the settle timer fired
C6_ShotLeadsToNextTurn ==
  <>[](~golfBall.moving) => [](last.shot /\ gameInProgress => <>C6_TurnPassed)

====
